---- MODULE Spec2Model ----
(***************************************************************************)
(* Cross-image instance matching engine of ClearCartAI.                    *)
(*                                                                         *)
(* Floats are modelled in fixed point: a similarity, an IoU threshold or   *)
(* an area ratio r is the integer r * 10000, and an embedding component c  *)
(* is the integer c * 100, so that the dot product of two embeddings is a  *)
(* similarity in the same unit (0.65 is 6500).  An IoU is kept as the      *)
(* exact fraction <<intersection, union>>.                                 *)
(*                                                                         *)
(* Images are 4 rows by 6 columns of pixels; the embedding model's patch   *)
(* grid is 2 rows by 3 columns, so every patch covers a 2 x 2 pixel block. *)
(***************************************************************************)
EXTENDS Integers, Sequences, FiniteSets, TLC

\* ------------------------------------------------------------------ bounds
MaxImages == 2

\* --------------------------------------------------------------- config.py
SIMILARITY_THRESHOLD == 6500
TOP_K_MATCHES == 3
NMS_IOU_THRESHOLD == 5000
MIN_MASK_AREA_RATIO == 10
MAX_MASK_AREA_RATIO == 5000

\* ----------------------------------------------------------------- helpers
Range(s) == {s[k] : k \in 1..Len(s)}

\* The smaller of two numbers taken to be the first.
MinIgnoringSecond(a, b) == a

Min(a, b) == IF a <= b THEN a ELSE b

Max(a, b) == IF a >= b THEN a ELSE b

SetMin(S) == CHOOSE m \in S : \A n \in S : m <= n

SetMax(S) == CHOOSE m \in S : \A n \in S : m >= n

\* An optional constructor argument: <<>> is Python's None, <<v>> is v.
None == << >>

Some(v) == <<v>>

\* Python truthiness of an optional number: None and 0 (0.0) are falsy.
Truthy(x) == x # None /\ x[1] # 0

\* Python's `x or default`.
Or(x, default) == IF Truthy(x) THEN x[1] ELSE default

\* list.sort(key=..., reverse=True): the indexes of keys in the order a stable
\* descending sort leaves them (equal keys keep their original order).
RECURSIVE SortedOrder(_, _)
SortedOrder(keys, remaining) ==
    IF remaining = {} THEN << >>
    ELSE LET top == SetMax({keys[k] : k \in remaining})
             first == SetMin({k \in remaining : keys[k] = top})
         IN <<first>> \o SortedOrder(keys, remaining \ {first})

\* An unstable sort: among equal keys the later element comes first.
SortDescendingLaterFirst(seq, keys) ==
    LET order == SortedOrder([k \in DOMAIN keys |-> 2 * Len(seq) * keys[k] + k],
                             DOMAIN seq)
    IN [k \in 1..Len(seq) |-> seq[order[k]]]

SortDescending(seq, keys) ==
    LET order == SortedOrder(keys, DOMAIN seq)
    IN [k \in 1..Len(seq) |-> seq[order[k]]]

\* Python's seq[:k] for any integer k.
SlicePrefix(seq, k) ==
    IF k >= 0 THEN SubSeq(seq, 1, Min(k, Len(seq)))
    ELSE SubSeq(seq, 1, Max(0, Len(seq) + k))

\* ------------------------------------------------- sam2_segmenter.py: boxes
\* The mask whose true pixels are the columns x1..x2 of the rows y1..y2.
Rect(x1, x2, y1, y2) == {<<x, y>> : x \in x1..x2, y \in y1..y2}

\* A mask is [pixels |-> the set of true pixels <<x, y>>, ndim |-> the number
\* of dimensions of its array]; a well-formed mask is 2-dimensional (H, W).
Mask(pixels) == [pixels |-> pixels, ndim |-> 2]

\* The box with inclusive far corner: the + 1 on x2 and y2 is left out.
MaskToBboxInclusive(mask) ==
    IF mask.pixels = {} THEN <<0, 0, 0, 0>>
    ELSE <<SetMin({p[1] : p \in mask.pixels}), SetMin({p[2] : p \in mask.pixels}),
           SetMax({p[1] : p \in mask.pixels}), SetMax({p[2] : p \in mask.pixels})>>

mask_to_bbox(mask) ==
    IF mask.pixels = {} THEN <<0, 0, 0, 0>>
    ELSE LET x1 == SetMin({p[1] : p \in mask.pixels})
             x2 == SetMax({p[1] : p \in mask.pixels})
             y1 == SetMin({p[2] : p \in mask.pixels})
             y2 == SetMax({p[2] : p \in mask.pixels})
         IN <<x1, y1, x2 + 1, y2 + 1>>

\* The IoU with pixel-inclusive side lengths: every width and height is one
\* too long.
BboxIouInclusiveSides(box1, box2) ==
    LET x1 == Max(box1[1], box2[1])
        y1 == Max(box1[2], box2[2])
        x2 == Min(box1[3], box2[3])
        y2 == Min(box1[4], box2[4])
        intersection == Max(0, x2 - x1) * Max(0, y2 - y1)
        area1 == (box1[3] - box1[1] + 1) * (box1[4] - box1[2] + 1)
        area2 == (box2[3] - box2[1] + 1) * (box2[4] - box2[2] + 1)
        union == area1 + area2 - intersection
    IN IF union > 0 THEN <<intersection, union>> ELSE <<0, 1>>

\* The IoU as the fraction <<numerator, denominator>>, denominator > 0.
bbox_iou(box1, box2) ==
    LET x1 == Max(box1[1], box2[1])
        y1 == Max(box1[2], box2[2])
        x2 == Min(box1[3], box2[3])
        y2 == Min(box1[4], box2[4])
        intersection == Max(0, x2 - x1) * Max(0, y2 - y1)
        area1 == (box1[3] - box1[1]) * (box1[4] - box1[2])
        area2 == (box2[3] - box2[1]) * (box2[4] - box2[2])
        union == area1 + area2 - intersection
    IN IF union > 0 THEN <<intersection, union>> ELSE <<0, 1>>

\* iou >= threshold: an IoU exactly at the threshold counts as above it.
IouAtOrAbove(iou, threshold) == iou[1] * 10000 >= threshold * iou[2]

\* iou > threshold, the threshold in units of 1/10000.
IouAbove(iou, threshold) == iou[1] * 10000 > threshold * iou[2]

\* ------------------------------------------------------ the image fixtures
\* The files a run can be given, and the image each one loads.
Files == {"shelf.jpg", "edge.jpg", "miss.jpg", "empty.jpg", "bad.jpg", "oom.jpg",
          "pair.jpg"}

load_image(path) ==
    CASE path = "shelf.jpg" -> 1
      [] path = "edge.jpg" -> 2
      [] path = "miss.jpg" -> 3
      [] path = "empty.jpg" -> 4
      [] path = "bad.jpg" -> 5
      [] path = "oom.jpg" -> 6
      [] path = "pair.jpg" -> 7

\* image.shape[0] * image.shape[1]
ImageArea(image) == 4 * 6

MaskData(pixels, quality) ==
    [segmentation |-> Mask(pixels), area |-> Cardinality(pixels),
     predicted_iou |-> quality]

\* What the SAM2 automatic mask generator yields for each image.
GeneratorOutput(image) ==
    CASE image = 1 -> << MaskData(Rect(0, 1, 0, 1), 9500),
                         MaskData(Rect(0, 2, 0, 1), 9000),
                         MaskData(Rect(1, 2, 0, 1), 9200),
                         MaskData(Rect(4, 5, 2, 3), 8800),
                         MaskData(Rect(0, 1, 2, 3), 9200) >>
      [] image = 2 -> << MaskData(Rect(4, 5, 0, 1), 9900),
                         MaskData(Rect(0, 1, 0, 3), 9100),
                         MaskData(Rect(0, 5, 0, 2), 9800),
                         MaskData(Rect(0, 1, 0, 1), 9100),
                         MaskData(Rect(0, 5, 0, 1), 8700),
                         MaskData(Rect(2, 3, 2, 3), 9300) >>
      [] image = 3 -> << MaskData(Rect(2, 3, 2, 3), 9000),
                         MaskData(Rect(4, 5, 0, 1), 9400) >>
      [] image = 4 -> << MaskData(Rect(0, 5, 0, 3), 9900), MaskData({}, 9000) >>
      [] image = 5 -> << MaskData(Rect(0, 1, 0, 1), 9500),
                         [MaskData(Rect(0, 2, 0, 1), 9300) EXCEPT
                             !.segmentation.ndim = 3],
                         MaskData(Rect(4, 5, 2, 3), 9000) >>
      [] image = 7 -> << MaskData(Rect(1, 4, 0, 1), 9500),
                         MaskData(Rect(1, 5, 0, 1), 9300),
                         MaskData(Rect(0, 1, 2, 3), 9000) >>
      [] OTHER -> << >>

\* The generator raises for this image (the provider fails).
GeneratorRaises(image) == image = 6

\* The patch grid of the embedding model: the feature vector of every cell
\* <<row, column>> of the 2 x 3 grid.
GridCells == (0..1) \X (0..2)

PatchEmbeddings(image) ==
    [cell \in GridCells |->
        CASE cell = <<0, 0>> -> <<3, 4>>
          [] cell = <<0, 1>> -> IF image = 7 THEN <<43, 90>> ELSE <<4, 3>>
          [] cell = <<0, 2>> -> IF image = 7 THEN <<26, -18>> ELSE <<5, 0>>
          [] cell = <<1, 0>> -> IF image = 7 THEN <<95, 30>> ELSE <<0, 5>>
          [] cell = <<1, 1>> -> <<-3, 4>>
          [] cell = <<1, 2>> -> IF image = 1 THEN <<4, 3>> ELSE <<-4, -3>>]

\* -------------------------------------- sam2_segmenter.py: the proposals
\* The area filter over the open interval: a mask exactly at a bound is
\* rejected.
GenerateProposalsOpenInterval(image) ==
    LET raw_masks == GeneratorOutput(image)
        image_area == ImageArea(image)
        Rejected(mask_data) ==
            \/ mask_data.area * 10000 <= MIN_MASK_AREA_RATIO * image_area
            \/ mask_data.area * 10000 >= MAX_MASK_AREA_RATIO * image_area
        proposals == SelectSeq(raw_masks, LAMBDA m : ~Rejected(m))
    IN SortDescending(proposals,
                      [k \in 1..Len(proposals) |-> proposals[k].predicted_iou])

generate_proposals(image) ==
    LET raw_masks == GeneratorOutput(image)
        image_area == ImageArea(image)
        Rejected(mask_data) ==
            \/ mask_data.area * 10000 < MIN_MASK_AREA_RATIO * image_area
            \/ mask_data.area * 10000 > MAX_MASK_AREA_RATIO * image_area
        proposals == SelectSeq(raw_masks, LAMBDA m : ~Rejected(m))
    IN SortDescending(proposals,
                      [k \in 1..Len(proposals) |-> proposals[k].predicted_iou])

\* --------------------------------------------------- dinov2_embedder.py
\* The poolings the embedder has done so far, oldest first.
VARIABLE pool_log

\* F.interpolate(mask, size=grid, mode='bilinear', align_corners=False) of a
\* 4 x 6 mask onto the 2 x 3 grid samples the centre of every 2 x 2 block: the
\* coverage of a cell is the number of true pixels of its block, over 4.
Coverage(mask, cell) ==
    <<Cardinality(mask.pixels \cap
                  Rect(2 * cell[2], 2 * cell[2] + 1, 2 * cell[1], 2 * cell[1] + 1)),
      4>>

\* patch_mask = mask_resized > 0.5: the cells covered by more than half.
ForegroundPatches(mask) ==
    {cell \in GridCells : 2 * Coverage(mask, cell)[1] > Coverage(mask, cell)[2]}

\* patch_mask = mask_resized > 0.5, replaced by the whole grid when empty.
PatchMask(mask) ==
    LET patch_mask == ForegroundPatches(mask)
    IN IF patch_mask = {} THEN GridCells ELSE patch_mask

RECURSIVE VectorSum(_, _)
VectorSum(patches, cells) ==
    IF cells = {} THEN <<0, 0>>
    ELSE LET cell == CHOOSE c \in cells : TRUE
             rest == VectorSum(patches, cells \ {cell})
         IN <<patches[cell][1] + rest[1], patches[cell][2] + rest[2]>>

\* floor(100 * |x| / sqrt(n2)), with the sign of x.
UnitComponent(x, n2) ==
    LET a == IF x >= 0 THEN x ELSE -x
        q == CHOOSE r \in 0..100 :
                /\ r * r * n2 <= 10000 * a * a
                /\ (r + 1) * (r + 1) * n2 > 10000 * a * a
    IN IF x >= 0 THEN q ELSE -q

\* F.normalize(fg_patches.mean(dim=0), p=2, dim=0): the mean is sum / n, and
\* mean / max(|mean|, eps) is sum / |sum|, or the zero vector when the sum is
\* zero.
NormalizedMean(sum) ==
    LET n2 == sum[1] * sum[1] + sum[2] * sum[2]
    IN IF n2 = 0 THEN <<0, 0>>
       ELSE <<UnitComponent(sum[1], n2), UnitComponent(sum[2], n2)>>

FfaEmbedding(patches_spatial, mask) ==
    NormalizedMean(VectorSum(patches_spatial, PatchMask(mask)))

\* F.interpolate raises for a mask that is not a 2-dimensional array.
InterpolateRaises(mask) == mask.ndim # 2

\* compute_batch_ffa_embeddings raises as soon as one mask of the batch does.
BatchFfaRaises(masks) == \E k \in 1..Len(masks) : InterpolateRaises(masks[k])

\* The batch loop without the fallback assignment: a mask without foreground
\* patches is pooled over the patch_mask the mask before it left behind.
BatchFfaCarryingSelection(image, masks) ==
    LET patches_spatial == PatchEmbeddings(image)
        patch_mask[k \in 1..Len(masks)] ==
            IF ForegroundPatches(masks[k]) # {} THEN ForegroundPatches(masks[k])
            ELSE IF k = 1 THEN GridCells ELSE patch_mask[k - 1]
    IN [k \in 1..Len(masks) |->
           NormalizedMean(VectorSum(patches_spatial, patch_mask[k]))]

compute_batch_ffa_embeddings(image, masks) ==
    LET patches_spatial == PatchEmbeddings(image)
    IN [k \in 1..Len(masks) |-> FfaEmbedding(patches_spatial, masks[k])]

\* What compute_batch_ffa_embeddings writes to standard output: its loop has
\* no print.
BatchFfaPrinted(masks) == << >>

\* The single-mask pooling binarizing with >= 0.5: a cell covered by exactly
\* half counts as foreground.
FfaEmbeddingAtLeastHalf(image, mask) ==
    LET patch_mask == {cell \in GridCells :
                          2 * Coverage(mask, cell)[1] >= Coverage(mask, cell)[2]}
    IN NormalizedMean(VectorSum(PatchEmbeddings(image),
                                IF patch_mask = {} THEN GridCells ELSE patch_mask))

compute_ffa_embedding(image, mask) == FfaEmbedding(PatchEmbeddings(image), mask)

\* What compute_ffa_embedding writes to standard output.
FfaPrinted(mask) ==
    IF ForegroundPatches(mask) = {}
    THEN <<"[DINOv2] Warning: No foreground patches found, using full image">>
    ELSE << >>

\* A pooling call and how it ended: what it returned and what it printed.
PoolCall(fn, image, masks, embeddings, printed) ==
    IF BatchFfaRaises(masks)
    THEN [fn |-> fn, image |-> image, masks |-> masks, outcome |-> "raised",
          embeddings |-> << >>, printed |-> << >>]
    ELSE [fn |-> fn, image |-> image, masks |-> masks, outcome |-> "returned",
          embeddings |-> embeddings, printed |-> printed]

Dot(a, b) == a[1] * b[1] + a[2] * b[2]

\* candidates @ reference
batch_cosine_similarity(reference, candidates) ==
    [k \in 1..Len(candidates) |-> Dot(candidates[k], reference)]

\* ------------------------------------------------------------ matcher.py
\* match_across_images: the results collected so far.
VARIABLE all_results

\* InstanceMatcher.__init__: the configuration the matcher keeps.
InstanceMatcher(similarity_threshold, top_k, nms_iou_threshold) ==
    [similarity_threshold |-> Or(similarity_threshold, SIMILARITY_THRESHOLD),
     top_k |-> Or(top_k, TOP_K_MATCHES),
     nms_iou_threshold |-> Or(nms_iou_threshold, NMS_IOU_THRESHOLD)]

\* The candidate keeping its similarity rounded to two decimals.
MatchResultOfRoundedSimilarity(proposal, sim, embedding) ==
    [mask |-> proposal.segmentation,
     bbox |-> mask_to_bbox(proposal.segmentation),
     similarity |-> (sim \div 100) * 100,
     predicted_iou |-> proposal.predicted_iou,
     area |-> proposal.area,
     embedding |-> embedding]

MatchResult(proposal, sim, embedding) ==
    [mask |-> proposal.segmentation,
     bbox |-> mask_to_bbox(proposal.segmentation),
     similarity |-> sim,
     predicted_iou |-> proposal.predicted_iou,
     area |-> proposal.area,
     embedding |-> embedding]

\* The filter building on a candidate list that outlives the call: the
\* matches of the image before are still in it.
RECURSIVE FilterKeepingEarlier(_, _, _, _, _)
FilterKeepingEarlier(sims, props, embeddings, threshold, k) ==
    IF k > Len(props) THEN << >>
    ELSE (IF k = 1 /\ all_results # << >>
          THEN all_results[Len(all_results)].matches ELSE << >>)
         \o (IF sims[k] >= threshold
             THEN <<MatchResult(props[k], sims[k], embeddings[k])>>
             ELSE << >>)
         \o FilterKeepingEarlier(sims, props, embeddings, threshold, k + 1)

\* The filter with a strict comparison: a candidate exactly at the threshold
\* is dropped.
RECURSIVE FilterStrictlyAbove(_, _, _, _, _)
FilterStrictlyAbove(sims, props, embeddings, threshold, k) ==
    IF k > Len(props) THEN << >>
    ELSE (IF sims[k] > threshold
          THEN <<MatchResult(props[k], sims[k], embeddings[k])>>
          ELSE << >>)
         \o FilterStrictlyAbove(sims, props, embeddings, threshold, k + 1)

\* Step 4 of match_in_image: the candidates at or above the threshold, in
\* proposal order.
RECURSIVE FilterByThreshold(_, _, _, _, _)
FilterByThreshold(sims, props, embeddings, threshold, k) ==
    IF k > Len(props) THEN << >>
    ELSE (IF sims[k] >= threshold
          THEN <<MatchResult(props[k], sims[k], embeddings[k])>>
          ELSE << >>)
         \o FilterByThreshold(sims, props, embeddings, threshold, k + 1)

\* The sort without reverse=True: the lowest similarity comes first.
SortByAscendingSimilarity(cands) ==
    SortDescending(cands, [k \in 1..Len(cands) |-> -cands[k].similarity])

\* candidates.sort(key=lambda x: x.similarity, reverse=True)
SortBySimilarity(cands) ==
    SortDescending(cands, [k \in 1..Len(cands) |-> cands[k].similarity])

\* The inner loop looking at the next candidate only.
SuppressesNextOnly(cands, i, suppressed, threshold) ==
    {j \in (i + 1)..Min(i + 1, Len(cands)) :
        /\ j \notin suppressed
        /\ IouAbove(bbox_iou(cands[i].bbox, cands[j].bbox), threshold)}

\* The inner loop of _nms: the later candidates that cands[i] suppresses.
Suppresses(cands, i, suppressed, threshold) ==
    {j \in (i + 1)..Len(cands) :
        /\ j \notin suppressed
        /\ IouAbove(bbox_iou(cands[i].bbox, cands[j].bbox), threshold)}

\* The outer loop without the check `if i in suppressed`: a suppressed
\* candidate is kept all the same.
RECURSIVE NmsLoopKeepingSuppressed(_, _, _, _, _)
NmsLoopKeepingSuppressed(cands, i, kept, suppressed, threshold) ==
    IF i > Len(cands) THEN kept
    ELSE NmsLoopKeepingSuppressed(cands, i + 1, Append(kept, cands[i]),
                                  suppressed, threshold)

RECURSIVE NmsLoop(_, _, _, _, _)
NmsLoop(cands, i, kept, suppressed, threshold) ==
    IF i > Len(cands) THEN kept
    ELSE IF i \in suppressed
         THEN NmsLoop(cands, i + 1, kept, suppressed, threshold)
         ELSE NmsLoop(cands, i + 1, Append(kept, cands[i]),
                      suppressed \cup Suppresses(cands, i, suppressed, threshold),
                      threshold)

\* _nms suppressing on any overlap at all, whatever the threshold.
NmsSuppressingAnyOverlap(cands, threshold) ==
    IF cands = << >> THEN << >> ELSE NmsLoop(cands, 1, << >>, {}, 0)

_nms(cands, threshold) ==
    IF cands = << >> THEN << >> ELSE NmsLoop(cands, 1, << >>, {}, threshold)

\* The slice taken from the wrong end: kept[-top_k:].
LastK(kept_list, top_k) ==
    SubSeq(kept_list, Max(1, Len(kept_list) - top_k + 1), Len(kept_list))

\* results.matches = kept[:self.top_k]
TopK(kept_list, top_k) == SlicePrefix(kept_list, top_k)

\* ---------------------------------------------------------------- state
VARIABLES
    args,                 \* the constructor arguments the caller gave
    self,                 \* the matcher's configuration
    target_images,        \* match_across_images: the list of (path, image)
    reference_embedding,  \* the reference descriptor
    pc,                   \* the statement the run is at
    i,                    \* match_across_images: images taken from the list
    results,              \* match_in_image: the ImageMatchResults being built
    proposals,            \* match_in_image locals
    proposal_embeddings,
    similarities,
    candidates,
    kept,
    prev,                 \* the previous run of the same inputs, if any
    call                  \* the last direct call of a helper, with its result

vars == <<args, self, target_images, reference_embedding, pc, i, all_results,
          results, proposals, proposal_embeddings, similarities, candidates,
          kept, prev, call, pool_log>>

\* What the direct calls of the helpers and of the pooler leave behind.
helper_vars == <<call, pool_log>>

\* The state of a matching run.
run_vars == <<args, self, target_images, reference_embedding, pc, i, all_results,
              results, proposals, proposal_embeddings, similarities, candidates,
              kept, prev>>

inputs == <<target_images, reference_embedding>>

locals == <<proposals, proposal_embeddings, similarities, candidates, kept>>

\* The argument values the caller chooses among.
SimilarityArgs == {None, Some(0), Some(6000), Some(9700)}

TopKArgs == {None, Some(1), Some(2)}

NmsArgs == {None, Some(0), Some(3000)}

\* The reference descriptors: pooled from the first and the fourth patch.
ReferenceEmbeddings ==
    {FfaEmbedding(PatchEmbeddings(1), Mask(Rect(0, 1, 0, 1))),
     FfaEmbedding(PatchEmbeddings(1), Mask(Rect(0, 1, 2, 3)))}

TargetLists ==
    UNION {[1..n -> Files] : n \in 0..MaxImages}

NoResults == [image_path |-> "", image |-> 0, matches |-> << >>]

Init ==
    /\ args \in [similarity_threshold : SimilarityArgs, top_k : TopKArgs,
                  nms_iou_threshold : NmsArgs]
    /\ self = InstanceMatcher(args.similarity_threshold, args.top_k,
                              args.nms_iou_threshold)
    /\ \E paths \in TargetLists :
          target_images = [k \in 1..Len(paths) |-> <<paths[k], load_image(paths[k])>>]
    /\ reference_embedding \in ReferenceEmbeddings
    /\ pc = "loop"
    /\ i = 0
    /\ all_results = << >>
    /\ results = NoResults
    /\ proposals = << >>
    /\ proposal_embeddings = << >>
    /\ similarities = << >>
    /\ candidates = << >>
    /\ kept = << >>
    /\ prev = << >>
    /\ call = [fn |-> "none"]
    /\ pool_log = << >>

\* The caller collecting only the results that have a match.
ReturnToLoopSkippingEmpty(returned) ==
    /\ all_results' = IF Len(returned.matches) > 0
                      THEN Append(all_results, returned) ELSE all_results
    /\ results' = NoResults
    /\ proposals' = << >>
    /\ proposal_embeddings' = << >>
    /\ similarities' = << >>
    /\ candidates' = << >>
    /\ kept' = << >>
    /\ pc' = "loop"

\* The caller collecting the results newest first.
ReturnToLoopPrepending(returned) ==
    /\ all_results' = <<returned>> \o all_results
    /\ results' = NoResults
    /\ proposals' = << >>
    /\ proposal_embeddings' = << >>
    /\ similarities' = << >>
    /\ candidates' = << >>
    /\ kept' = << >>
    /\ pc' = "loop"

\* match_in_image returns `returned` to match_across_images, which appends it
\* and goes back to the head of its loop; the locals die with the call.
ReturnToLoop(returned) ==
    /\ all_results' = Append(all_results, returned)
    /\ results' = NoResults
    /\ proposals' = << >>
    /\ proposal_embeddings' = << >>
    /\ similarities' = << >>
    /\ candidates' = << >>
    /\ kept' = << >>
    /\ pc' = "loop"

\* An exception leaves match_in_image and match_across_images: nothing is
\* returned.
Raise ==
    /\ pc' = "raised"
    /\ UNCHANGED <<all_results, results, locals>>

\* match_across_images, lines 175-177: take the next image and enter
\* match_in_image (line 83).
NextImage ==
    /\ pc = "loop"
    /\ i < Len(target_images)
    /\ i' = i + 1
    /\ results' = [image_path |-> target_images[i + 1][1],
                   image |-> target_images[i + 1][2], matches |-> << >>]
    /\ pc' = "propose"
    /\ UNCHANGED <<args, self, inputs, all_results, locals, prev>>
    /\ UNCHANGED helper_vars

\* match_across_images, lines 180-184: the list is exhausted.
ReturnAll ==
    /\ pc = "loop"
    /\ i = Len(target_images)
    /\ pc' = "returned"
    /\ UNCHANGED <<args, self, inputs, i, all_results, results, locals, prev>>
    /\ UNCHANGED helper_vars

\* match_in_image, lines 86-90.
Propose ==
    /\ pc = "propose"
    /\ IF GeneratorRaises(results.image)
       THEN Raise
       ELSE LET generated == generate_proposals(results.image)
            IN IF generated = << >>
               THEN ReturnToLoop(results)
               ELSE /\ proposals' = generated
                    /\ pc' = "pool"
                    /\ UNCHANGED <<all_results, results, proposal_embeddings,
                                   similarities, candidates, kept>>
    /\ UNCHANGED <<args, self, inputs, i, prev>>
    /\ UNCHANGED helper_vars

\* The pooling done mask by mask: compute_ffa_embedding, and with it the
\* embedding model, is called once for every proposal.
PoolMaskByMask ==
    /\ pc = "pool"
    /\ LET proposal_masks == [k \in 1..Len(proposals) |-> proposals[k].segmentation]
       IN /\ pool_log' =
                pool_log \o [k \in 1..Len(proposals) |->
                                PoolCall("compute_ffa_embedding", results.image,
                                         <<proposal_masks[k]>>,
                                         <<compute_ffa_embedding(results.image,
                                                                 proposal_masks[k])>>,
                                         FfaPrinted(proposal_masks[k]))]
          /\ IF BatchFfaRaises(proposal_masks)
             THEN Raise
             ELSE /\ proposal_embeddings' =
                         compute_batch_ffa_embeddings(results.image, proposal_masks)
                  /\ pc' = "similarity"
                  /\ UNCHANGED <<all_results, results, proposals, similarities,
                                 candidates, kept>>
    /\ UNCHANGED <<args, self, inputs, i, prev, call>>

\* match_in_image, lines 93-96: one call of compute_batch_ffa_embeddings,
\* which runs the embedding model once, before it looks at any mask.
Pool ==
    /\ pc = "pool"
    /\ LET proposal_masks == [k \in 1..Len(proposals) |-> proposals[k].segmentation]
       IN /\ pool_log' =
                Append(pool_log,
                       PoolCall("compute_batch_ffa_embeddings", results.image,
                                proposal_masks,
                                compute_batch_ffa_embeddings(results.image,
                                                             proposal_masks),
                                BatchFfaPrinted(proposal_masks)))
          /\ IF BatchFfaRaises(proposal_masks)
             THEN Raise
             ELSE /\ proposal_embeddings' =
                         compute_batch_ffa_embeddings(results.image, proposal_masks)
                  /\ pc' = "similarity"
                  /\ UNCHANGED <<all_results, results, proposals, similarities,
                                 candidates, kept>>
    /\ UNCHANGED <<args, self, inputs, i, prev, call>>

\* match_in_image, lines 99-101.
Similarity ==
    /\ pc = "similarity"
    /\ similarities' = batch_cosine_similarity(reference_embedding, proposal_embeddings)
    /\ pc' = "filter"
    /\ UNCHANGED <<args, self, inputs, i, all_results, results, proposals,
                   proposal_embeddings, candidates, kept, prev>>
    /\ UNCHANGED helper_vars

\* match_in_image, lines 104-116.
Filter ==
    /\ pc = "filter"
    /\ candidates' = FilterByThreshold(similarities, proposals, proposal_embeddings,
                                       self.similarity_threshold, 1)
    /\ pc' = "sort"
    /\ UNCHANGED <<args, self, inputs, i, all_results, results, proposals,
                   proposal_embeddings, similarities, kept, prev>>
    /\ UNCHANGED helper_vars

\* The sort going straight to the truncation: _nms is never called.
SortSkippingSuppress ==
    /\ pc = "sort"
    /\ candidates' = SortBySimilarity(candidates)
    /\ kept' = candidates'
    /\ pc' = "truncate"
    /\ UNCHANGED <<args, self, inputs, i, all_results, results, proposals,
                   proposal_embeddings, similarities, prev>>
    /\ UNCHANGED helper_vars

\* match_in_image, line 119.
Sort ==
    /\ pc = "sort"
    /\ candidates' = SortBySimilarity(candidates)
    /\ pc' = "nms"
    /\ UNCHANGED <<args, self, inputs, i, all_results, results, proposals,
                   proposal_embeddings, similarities, kept, prev>>
    /\ UNCHANGED helper_vars

\* The suppression walking the candidates from the lowest similarity up: of
\* two overlapping candidates the lower one is kept.
SuppressFromLowest ==
    /\ pc = "nms"
    /\ LET backwards(seq) == [k \in 1..Len(seq) |-> seq[Len(seq) + 1 - k]]
       IN kept' = backwards(_nms(backwards(candidates), self.nms_iou_threshold))
    /\ pc' = "truncate"
    /\ UNCHANGED <<args, self, inputs, i, all_results, results, proposals,
                   proposal_embeddings, similarities, candidates, prev>>
    /\ UNCHANGED helper_vars

\* match_in_image, line 122.
Suppress ==
    /\ pc = "nms"
    /\ kept' = _nms(candidates, self.nms_iou_threshold)
    /\ pc' = "truncate"
    /\ UNCHANGED <<args, self, inputs, i, all_results, results, proposals,
                   proposal_embeddings, similarities, candidates, prev>>
    /\ UNCHANGED helper_vars

\* The truncation writing into one match list shared by all results: the
\* results collected before get the matches of this image.
TruncateIntoSharedList ==
    /\ pc = "truncate"
    /\ pc' = "loop"
    /\ results' = NoResults
    /\ proposals' = << >>
    /\ proposal_embeddings' = << >>
    /\ similarities' = << >>
    /\ candidates' = << >>
    /\ kept' = << >>
    /\ all_results' =
          Append([k \in 1..Len(all_results) |->
                     [all_results[k] EXCEPT !.matches = TopK(kept, self.top_k)]],
                 [results EXCEPT !.matches = TopK(kept, self.top_k)])
    /\ UNCHANGED <<args, self, inputs, i, prev>>
    /\ UNCHANGED helper_vars

\* match_in_image, lines 125-130, and match_across_images, line 178.
Truncate ==
    /\ pc = "truncate"
    /\ ReturnToLoop([results EXCEPT !.matches = TopK(kept, self.top_k)])
    /\ UNCHANGED <<args, self, inputs, i, prev>>
    /\ UNCHANGED helper_vars

\* What a run leaves behind for the caller: its configuration, how it ended
\* and what it collected.
Finished ==
    [args |-> args, self |-> self, pc |-> pc, target_images |-> target_images,
     all_results |-> all_results]

StartRun ==
    /\ pc' = "loop"
    /\ i' = 0
    /\ all_results' = << >>
    /\ results' = NoResults
    /\ pool_log' = << >>
    /\ UNCHANGED locals

\* The caller builds a second matcher that differs in the similarity
\* threshold only, and runs it on the same images and reference.
RerunWithThreshold ==
    /\ pc \in {"returned", "raised"}
    /\ prev = << >>
    /\ prev' = <<Finished>>
    /\ \E t \in SimilarityArgs :
          /\ args' = [args EXCEPT !.similarity_threshold = t]
          /\ self' = InstanceMatcher(t, args.top_k, args.nms_iou_threshold)
    /\ StartRun
    /\ UNCHANGED inputs
    /\ UNCHANGED call

Reverse(seq) == [k \in 1..Len(seq) |-> seq[Len(seq) + 1 - k]]

\* The caller runs the same matcher again on the same images in another
\* order, or without the first of them.
RerunWithImages ==
    /\ pc \in {"returned", "raised"}
    /\ prev = << >>
    /\ target_images # << >>
    /\ prev' = <<Finished>>
    /\ target_images' \in {Reverse(target_images), Tail(target_images)}
    /\ StartRun
    /\ UNCHANGED <<args, self, reference_embedding>>
    /\ UNCHANGED call

Next ==
    \/ NextImage
    \/ ReturnAll
    \/ Propose
    \/ Pool
    \/ Similarity
    \/ Filter
    \/ Sort
    \/ Suppress
    \/ Truncate
    \/ RerunWithThreshold
    \/ RerunWithImages

Spec == Init /\ [][Next]_vars

\* ------------------------------------------------------------ properties
\* ImageMatchResults.has_match
has_match(r) == Len(r.matches) > 0

\* Every ImageMatchResults the run holds: the collected ones and the one
\* being built.
HeldResults == Range(all_results) \cup {results}

\* C1: no two matches of a result of match_in_image have a bbox IoU above the
\* matcher's NMS IoU threshold.
C1_NoOverlappingMatches ==
    \A r \in HeldResults :
        \A a, b \in 1..Len(r.matches) :
            a # b => ~IouAbove(bbox_iou(r.matches[a].bbox, r.matches[b].bbox),
                               self.nms_iou_threshold)

\* C1 witness: a returned result holds two matches whose boxes overlap, by no
\* more than the threshold, and leaves out proposals of its image although
\* top-K would allow more.
C1_Witness ==
    \E r \in Range(all_results) :
        /\ \E a, b \in 1..Len(r.matches) :
              a # b /\ bbox_iou(r.matches[a].bbox, r.matches[b].bbox)[1] > 0
        /\ Len(r.matches) < self.top_k
        /\ Len(r.matches) < Len(generate_proposals(r.image))

\* C2: the matches of a result are sorted by similarity, non-increasing, are
\* at most top-K, and are the first top-K survivors of suppression in their
\* order: no survivor ranked above a returned match is left out.
C2_TopKSortedSurvivors ==
    [][pc = "truncate" =>
         LET m == all_results'[Len(all_results')].matches
         IN /\ Len(all_results') = Len(all_results) + 1
            /\ \A a, b \in 1..Len(m) : a < b => m[a].similarity >= m[b].similarity
            /\ Len(m) <= self.top_k
            /\ Len(m) = Min(self.top_k, Len(kept))
            /\ \A k \in 1..Len(m) : m[k] = kept[k]]_vars

\* C2 witness: suppression left more survivors than top-K, of different
\* similarities, and top-K is at least 2.
C2_Witness ==
    /\ pc = "truncate"
    /\ self.top_k >= 2
    /\ Len(kept) > self.top_k
    /\ kept[1].similarity > kept[Len(kept)].similarity

\* C3: the similarity filter keeps exactly the proposals whose similarity is
\* at or above the matcher's threshold, and every match of a result has a
\* similarity at or above it.
C3_FilterAtOrAboveThreshold ==
    [][/\ pc = "filter" =>
            /\ \A k \in 1..Len(proposals) :
                  similarities[k] >= self.similarity_threshold
                  <=> \E c \in Range(candidates') :
                         /\ c.mask = proposals[k].segmentation
                         /\ c.similarity = similarities[k]
            /\ Len(candidates') =
                  Cardinality({k \in 1..Len(proposals) :
                                  similarities[k] >= self.similarity_threshold})
       /\ \A r \in Range(all_results') \cup {results'} :
             \A k \in 1..Len(r.matches) :
                 r.matches[k].similarity >= self'.similarity_threshold]_vars

\* C3 witness: the filter has kept a proposal exactly at the threshold and
\* dropped another one.
C3_Witness ==
    /\ pc = "sort"
    /\ \E c \in Range(candidates) : c.similarity = self.similarity_threshold
    /\ Len(candidates) < Len(proposals)

\* C4: the matcher uses every threshold and top-K the caller supplies, and a
\* default only for an argument the caller leaves out.
C4_SuppliedArgumentsApplied ==
    /\ self.similarity_threshold =
          IF args.similarity_threshold = None THEN SIMILARITY_THRESHOLD
          ELSE args.similarity_threshold[1]
    /\ self.top_k =
          IF args.top_k = None THEN TOP_K_MATCHES ELSE args.top_k[1]
    /\ self.nms_iou_threshold =
          IF args.nms_iou_threshold = None THEN NMS_IOU_THRESHOLD
          ELSE args.nms_iou_threshold[1]

\* C5: of two runs on the same images and reference whose matchers were given
\* the similarity thresholds t1 <= t2, the run with t2 has no more matches
\* for any image than the run with t1.
C5_RaisingThresholdNeverAddsMatches ==
    (/\ prev # << >>
     /\ pc = "returned"
     /\ prev[1].pc = "returned"
     /\ prev[1].target_images = target_images
     /\ prev[1].args.similarity_threshold # None
     /\ args.similarity_threshold # None
     /\ prev[1].args.similarity_threshold[1] <= args.similarity_threshold[1])
    => \A k \in 1..Len(all_results) :
           Len(all_results[k].matches) <= Len(prev[1].all_results[k].matches)

\* match_in_image has returned an empty result for the image it was given,
\* and match_across_images has collected it.
EmptyResultCollected ==
    /\ pc' = "loop"
    /\ i' = i
    /\ Len(all_results') = Len(all_results) + 1
    /\ SubSeq(all_results', 1, Len(all_results)) = all_results
    /\ LET r == all_results'[Len(all_results')]
       IN /\ r.matches = << >>
          /\ ~has_match(r)
          /\ r.image_path = target_images[i][1]

\* C6: when no proposal comes out of proposal generation, or none passes the
\* similarity filter, match_in_image returns a result without matches and
\* raises nothing, and match_across_images takes the next image.
C6_EmptyResultAndRunContinues ==
    [][/\ (/\ pc = "propose"
            /\ ~GeneratorRaises(results.image)
            /\ generate_proposals(results.image) = << >>) => EmptyResultCollected
       /\ (pc \in {"sort", "nms"} /\ candidates = << >>) => pc' # "raised"
       /\ (pc = "truncate" /\ candidates = << >>) => EmptyResultCollected
       /\ (pc = "loop" /\ i < Len(target_images)) =>
              (pc' = "propose" /\ i' = i + 1 /\ all_results' = all_results)]_vars

\* C6 witness: an image whose proposals all missed the threshold got an empty
\* result, an image without proposals got one too, and both were collected.
C6_Witness ==
    /\ Len(all_results) = 2
    /\ ~has_match(all_results[1])
    /\ generate_proposals(all_results[1].image) # << >>
    /\ ~has_match(all_results[2])
    /\ generate_proposals(all_results[2].image) = << >>

\* Processing this image on its own raises.
ImageFails(image) ==
    \/ GeneratorRaises(image)
    \/ LET generated == generate_proposals(image)
       IN BatchFfaRaises([k \in 1..Len(generated) |-> generated[k].segmentation])

\* C7: a failure while one image is processed does not abort the run:
\* match_across_images returns, with a result for every other image.
C7_FailureDoesNotAbortRun ==
    /\ pc # "raised"
    /\ pc = "returned" =>
          \A k \in 1..Len(target_images) :
              ~ImageFails(target_images[k][2]) =>
                  \E r \in Range(all_results) : r.image_path = target_images[k][1]

\* C8: pooling drops a malformed mask and goes on: the well-formed proposals
\* of the image are pooled and scored.
C8_MalformedCandidateDropped ==
    [][pc = "pool" =>
         /\ pc' = "similarity"
         /\ Len(proposal_embeddings') =
               Cardinality({k \in 1..Len(proposals) :
                               ~InterpolateRaises(proposals[k].segmentation)})]_vars

\* C9: match_across_images returns one result per target image, in the order
\* of the list, each with the path and the image of its element.
C9_OneResultPerImageInOrder ==
    pc = "returned" =>
        /\ Len(all_results) = Len(target_images)
        /\ \A k \in 1..Len(target_images) :
              /\ all_results[k].image_path = target_images[k][1]
              /\ all_results[k].image = target_images[k][2]

\* C9 witness: a run over two different images has returned, the first of
\* them without a match.
C9_Witness ==
    /\ pc = "returned"
    /\ Len(target_images) = 2
    /\ target_images[1][1] # target_images[2][1]
    /\ ~has_match(all_results[1])
    /\ has_match(all_results[2])

\* The results of one image in two result lists agree.
SameImageSameMatches(list1, list2) ==
    \A a \in 1..Len(list1), b \in 1..Len(list2) :
        list1[a].image = list2[b].image => list1[a].matches = list2[b].matches

\* C10: with the same reference and configuration, an image gets the same
\* matches wherever it stands in the list and whatever the other images are:
\* within one run, and between two runs over different lists.
C10_ResultDependsOnImageOnly ==
    /\ SameImageSameMatches(all_results, all_results)
    /\ (prev # << >> /\ prev[1].self = self) =>
          SameImageSameMatches(prev[1].all_results, all_results)

\* C10 witness: two runs of one matcher over different lists of the same two
\* images have returned, and both images have matches.
C10_Witness ==
    /\ prev # << >>
    /\ pc = "returned"
    /\ prev[1].pc = "returned"
    /\ prev[1].self = self
    /\ prev[1].target_images # target_images
    /\ Len(prev[1].target_images) = 2
    /\ prev[1].target_images[1] # prev[1].target_images[2]
    /\ \A r \in Range(prev[1].all_results) \cup Range(all_results) : has_match(r)

\* ------------------------------------------ direct calls of the box helpers
\* The pixels of an image: 6 columns by 4 rows.
Pixels == Rect(0, 5, 0, 3)

\* The masks mask_to_bbox is called on: every rectangle, every set of one or
\* two pixels, and the all-false mask.
MaskInputs ==
    {Mask(Rect(x1, x2, y1, y2)) : x1 \in 0..5, x2 \in 0..5, y1 \in 0..3, y2 \in 0..3}
    \cup {Mask({p, q}) : p \in Pixels, q \in Pixels}

\* The boxes bbox_iou is called on: [x1, y1, x2, y2] with x1 <= x2 and
\* y1 <= y2, zero-width and zero-height boxes included.
BoxInputs ==
    {box \in (0..4) \X (0..3) \X (0..4) \X (0..3) :
        box[1] <= box[3] /\ box[2] <= box[4]}

CallMaskToBbox ==
    /\ call.fn = "none"
    /\ \E mask \in MaskInputs :
          call' = [fn |-> "mask_to_bbox", mask |-> mask,
                   result |-> mask_to_bbox(mask)]
    /\ UNCHANGED <<run_vars, pool_log>>

CallBboxIou ==
    /\ call.fn = "none"
    /\ \E box1 \in BoxInputs, box2 \in BoxInputs :
          call' = [fn |-> "bbox_iou", masks |-> << >>, box1 |-> box1, box2 |-> box2,
                   result |-> bbox_iou(box1, box2)]
    /\ UNCHANGED <<run_vars, pool_log>>

\* bbox_iou on the boxes of two masks, as _nms calls it.
CallBboxIouOfMasks ==
    /\ call.fn = "none"
    /\ \E mask1 \in MaskInputs, mask2 \in MaskInputs :
          /\ mask2 \in {mask1, Mask({}), Mask(Pixels)}
          /\ call' = [fn |-> "bbox_iou", masks |-> <<mask1, mask2>>,
                      box1 |-> mask_to_bbox(mask1), box2 |-> mask_to_bbox(mask2),
                      result |-> bbox_iou(mask_to_bbox(mask1), mask_to_bbox(mask2))]
    /\ UNCHANGED <<run_vars, pool_log>>

\* ------------------------------------------------- direct calls of _nms
\* The longest candidate list _nms is called on.
MaxCandidates == 3

\* The masks of the candidates: two overlapping rectangles, a disjoint one,
\* a diagonal with the box of the first, the all-false mask, and a rectangle
\* that overlaps the second more than the first.
CandidateMasks ==
    {Mask(Rect(0, 1, 0, 1)), Mask(Rect(0, 2, 0, 1)), Mask(Rect(4, 5, 2, 3)),
     Mask({<<0, 0>>, <<1, 1>>}), Mask({}), Mask(Rect(1, 2, 0, 1))}

CandidateSimilarities == {9000, 8000}

\* The NMS IoU thresholds a matcher can hold.
NmsThresholds == {3000, 5000, 7000, 10000}

\* The candidate lists _nms is given: sorted by similarity, highest first;
\* candidate k is built from proposal k.
CandidateLists ==
    LET Shapes == UNION {[1..n -> CandidateMasks \X CandidateSimilarities] :
                            n \in 0..MaxCandidates}
        Sorted(shape) == \A k \in 1..(Len(shape) - 1) : shape[k][2] >= shape[k + 1][2]
    IN {[k \in 1..Len(shape) |->
            MatchResult([segmentation |-> shape[k][1],
                         area |-> Cardinality(shape[k][1].pixels),
                         predicted_iou |-> 9900 - 100 * k],
                        shape[k][2],
                        FfaEmbedding(PatchEmbeddings(1), shape[k][1]))] :
        shape \in {sh \in Shapes : Sorted(sh)}}

CallNms ==
    /\ call.fn = "none"
    /\ \E cands \in CandidateLists, threshold \in NmsThresholds :
          call' = [fn |-> "_nms", candidates |-> cands, threshold |-> threshold,
                   result |-> _nms(cands, threshold)]
    /\ UNCHANGED <<run_vars, pool_log>>

\* One direct call of a helper, outside any matching run.
HelperInit ==
    /\ Init
    /\ args = [similarity_threshold |-> None, top_k |-> None,
               nms_iou_threshold |-> None]
    /\ target_images = << >>
    /\ reference_embedding = FfaEmbedding(PatchEmbeddings(1), Mask(Rect(0, 1, 0, 1)))

HelperNext ==
    \/ CallMaskToBbox
    \/ CallBboxIou
    \/ CallBboxIouOfMasks
    \/ CallNms

HelperSpec == HelperInit /\ [][HelperNext]_vars

\* ------------------------------------------- direct calls of the pooler
\* The most poolings of one behaviour.
MaxPoolCalls == 2

\* The images whose patch grids are pooled: the two grids differ in one cell.
PoolImages == {1, 2}

\* A mask over one grid cell, a single pixel (no cell is covered by more than
\* half), two cells whose patch vectors are opposite in the grid of image 2,
\* the all-false mask, and a 3-dimensional array.
OneCellMask == Mask(Rect(0, 1, 0, 1))
OnePixelMask == Mask({<<0, 0>>})
OppositeCellsMask == Mask(Rect(2, 3, 0, 1) \cup Rect(4, 5, 2, 3))
MalformedMask == [Mask(Rect(0, 2, 0, 1)) EXCEPT !.ndim = 3]

\* A mask over one grid cell and exactly half of the next.
HalfCellMask == Mask(Rect(0, 2, 0, 1))

PoolMasks ==
    {OneCellMask, OnePixelMask, OppositeCellsMask, Mask({}), MalformedMask,
     HalfCellMask}

PoolBatches ==
    {<<OneCellMask, OnePixelMask>>, <<OnePixelMask, OppositeCellsMask>>,
     <<OppositeCellsMask, Mask({})>>, <<OneCellMask, MalformedMask>>,
     <<HalfCellMask, OneCellMask>>}

CallFfaEmbedding ==
    /\ Len(pool_log) < MaxPoolCalls
    /\ \E image \in PoolImages, mask \in PoolMasks :
          pool_log' = Append(pool_log,
                             PoolCall("compute_ffa_embedding", image, <<mask>>,
                                      <<compute_ffa_embedding(image, mask)>>,
                                      FfaPrinted(mask)))
    /\ UNCHANGED <<run_vars, call>>

CallBatchFfaEmbeddings ==
    /\ Len(pool_log) < MaxPoolCalls
    /\ \E image \in PoolImages, masks \in PoolBatches :
          pool_log' = Append(pool_log,
                             PoolCall("compute_batch_ffa_embeddings", image, masks,
                                      compute_batch_ffa_embeddings(image, masks),
                                      BatchFfaPrinted(masks)))
    /\ UNCHANGED <<run_vars, call>>

PoolNext ==
    \/ CallFfaEmbedding
    \/ CallBatchFfaEmbeddings

PoolSpec == HelperInit /\ [][PoolNext]_vars

\* ------------------------------------------------------------ pipeline.py
\* The longest image_paths list an entry point is given.
MaxPaths == 2

\* The paths handed to the pipeline: a file can be named in two ways.
ImagePaths ==
    {"shelf.jpg", "./shelf.jpg", "pair.jpg", "./pair.jpg", "miss.jpg", "empty.jpg",
     "oom.jpg"}

\* Path(path).resolve(): the file the path names.
Resolve(path) ==
    CASE path = "./shelf.jpg" -> "shelf.jpg"
      [] path = "./pair.jpg" -> "pair.jpg"
      [] OTHER -> path

\* The test of the target loop comparing the paths as written.
SamePathAsWritten(a, b) == a = b

\* Path(path).resolve() == Path(reference_image_path).resolve()
SamePath(a, b) == Resolve(a) = Resolve(b)

\* The mask the interactive segmenter returns for the prompt on the reference.
ReferenceMask == Mask(Rect(0, 1, 0, 1))

PipelineResult(reference_image_path, reference_mask, embedding, image_results) ==
    [reference_image_path |-> reference_image_path,
     reference_mask |-> reference_mask,
     reference_embedding |-> embedding,
     reference_bbox |-> mask_to_bbox(reference_mask),
     image_results |-> image_results]

total_matches(result) ==
    Cardinality({k \in 1..Len(result.image_results) :
                    has_match(result.image_results[k])})

total_images(result) == Len(result.image_results)

\* The calls of the entry points: run_with_point and run_with_bbox name the
\* reference; run_interactive may leave it out, and its user may select
\* nothing.
PipelineCalls ==
    LET PathLists == UNION {[1..n -> ImagePaths] : n \in 0..MaxPaths}
        References == {Some("shelf.jpg"), Some("./pair.jpg")}
    IN [fn : {"run_with_point", "run_with_bbox"}, image_paths : PathLists,
        reference_image_path : References, selected : {TRUE},
        stage : {"called"}, result : {None}]
       \cup
       [fn : {"run_interactive"}, image_paths : PathLists,
        reference_image_path : References \cup {None}, selected : BOOLEAN,
        stage : {"called"}, result : {None}]

PipelineInit ==
    /\ call \in PipelineCalls
    /\ args = [similarity_threshold |-> None, top_k |-> None,
               nms_iou_threshold |-> None]
    /\ self = InstanceMatcher(None, None, None)
    /\ target_images = << >>
    /\ reference_embedding = << >>
    /\ pc = "idle"
    /\ i = 0
    /\ all_results = << >>
    /\ results = NoResults
    /\ proposals = << >>
    /\ proposal_embeddings = << >>
    /\ similarities = << >>
    /\ candidates = << >>
    /\ kept = << >>
    /\ prev = << >>
    /\ pool_log = << >>

\* The entry point up to its call of match_across_images.
PipelineStart ==
    /\ pc = "idle"
    /\ call.stage = "called"
    /\ IF call.reference_image_path = None /\ call.image_paths = << >>
       THEN /\ call' = [call EXCEPT !.stage = "raised"]
            /\ UNCHANGED <<target_images, reference_embedding, pc>>
       ELSE LET reference_image_path ==
                    IF call.reference_image_path = None THEN call.image_paths[1]
                    ELSE call.reference_image_path[1]
                ref_image == load_image(Resolve(reference_image_path))
                targets == SelectSeq(call.image_paths,
                                     LAMBDA path : ~SamePath(path, reference_image_path))
            IN IF ~call.selected
               THEN /\ call' = [call EXCEPT !.stage = "returned"]
                    /\ UNCHANGED <<target_images, reference_embedding, pc>>
               ELSE /\ reference_embedding' =
                           compute_ffa_embedding(ref_image, ReferenceMask)
                    /\ target_images' =
                           [k \in 1..Len(targets) |->
                               <<targets[k], load_image(Resolve(targets[k]))>>]
                    /\ pc' = "loop"
                    /\ call' = [call EXCEPT
                                   !.stage = "matching",
                                   !.reference_image_path = Some(reference_image_path)]
    /\ UNCHANGED <<args, self, i, all_results, results, locals, prev, pool_log>>

\* The entry point after match_across_images: it returns the PipelineResult,
\* or the exception of the matcher leaves it.
PipelineFinish ==
    /\ call.stage = "matching"
    /\ pc \in {"returned", "raised"}
    /\ IF pc = "returned"
       THEN call' = [call EXCEPT
                        !.stage = "returned",
                        !.result = Some(PipelineResult(call.reference_image_path[1],
                                                       ReferenceMask,
                                                       reference_embedding,
                                                       all_results))]
       ELSE call' = [call EXCEPT !.stage = "raised"]
    /\ UNCHANGED <<run_vars, pool_log>>

PipelineNext ==
    \/ PipelineStart
    \/ NextImage
    \/ ReturnAll
    \/ Propose
    \/ Pool
    \/ Similarity
    \/ Filter
    \/ Sort
    \/ Suppress
    \/ Truncate
    \/ PipelineFinish

PipelineSpec == PipelineInit /\ [][PipelineNext]_vars

\* The mask's share of the image lies in the configured closed interval.
AreaRatioInRange(area, image) ==
    /\ MIN_MASK_AREA_RATIO * ImageArea(image) <= area * 10000
    /\ area * 10000 <= MAX_MASK_AREA_RATIO * ImageArea(image)

\* C11: the proposals match_in_image works on are exactly the generated masks
\* whose area ratio lies in [min_ratio, max_ratio], bounds included, and every
\* match of every result has its area ratio in that interval.
C11_AreaFilterClosedInterval ==
    /\ pc \in {"pool", "similarity", "filter", "sort", "nms", "truncate"} =>
          LET raw_masks == GeneratorOutput(results.image)
              inside == {k \in 1..Len(raw_masks) :
                            AreaRatioInRange(raw_masks[k].area, results.image)}
          IN /\ Len(proposals) = Cardinality(inside)
             /\ Range(proposals) = {raw_masks[k] : k \in inside}
    /\ \A r \in HeldResults :
          \A k \in 1..Len(r.matches) : AreaRatioInRange(r.matches[k].area, r.image)

\* C11 witness: a returned result holds a match whose mask covers exactly the
\* maximal share of the image, and a larger mask of that image is in no match.
C11_Witness ==
    \E r \in Range(all_results) :
        /\ \E k \in 1..Len(r.matches) :
              r.matches[k].area * 10000 = MAX_MASK_AREA_RATIO * ImageArea(r.image)
        /\ \E m \in Range(GeneratorOutput(r.image)) :
              /\ ~AreaRatioInRange(m.area, r.image)
              /\ \A k \in 1..Len(r.matches) : r.matches[k].mask # m.segmentation

\* The candidate match_in_image builds from proposal k of the image at hand.
CandidateOf(k) == MatchResult(proposals[k], similarities[k], proposal_embeddings[k])

\* Proposal a comes before proposal b in the order of the sort: the higher
\* similarity, or the earlier proposal on a tie.
RanksBefore(a, b) ==
    \/ similarities[a] > similarities[b]
    \/ similarities[a] = similarities[b] /\ a < b

\* C12: when an image has three proposals, two of them at or above the
\* similarity threshold with a bbox IoU above the NMS threshold and the third
\* below the similarity threshold, match_in_image returns exactly one match:
\* the higher-similarity one of the two.
C12_EndToEndDuplicateAndMiss ==
    [][(/\ pc = "truncate"
        /\ Len(proposals) = 3)
       => \A a, b, c \in 1..3 :
             (/\ {a, b, c} = 1..3
              /\ RanksBefore(a, b)
              /\ similarities[a] >= self.similarity_threshold
              /\ similarities[b] >= self.similarity_threshold
              /\ similarities[c] < self.similarity_threshold
              /\ IouAbove(bbox_iou(CandidateOf(a).bbox, CandidateOf(b).bbox),
                          self.nms_iou_threshold))
             => all_results'[Len(all_results')].matches = <<CandidateOf(a)>>]_vars

\* C12 witness: the run returned the result of the example: proposals of
\* similarity 0.9, 0.72 and 0.3, the first two with a bbox IoU of 0.8, under
\* thresholds 0.65 and 0.5 and top-K 3, and a single match of similarity 0.9.
C12_Witness ==
    /\ self = [similarity_threshold |-> 6500, top_k |-> 3,
               nms_iou_threshold |-> 5000]
    /\ \E r \in Range(all_results) :
          LET generated == generate_proposals(r.image)
              embeddings ==
                  compute_batch_ffa_embeddings(
                      r.image, [k \in 1..Len(generated) |-> generated[k].segmentation])
              sims == batch_cosine_similarity(reference_embedding, embeddings)
          IN /\ sims = <<9000, 7200, 3000>>
             /\ bbox_iou(mask_to_bbox(generated[1].segmentation),
                         mask_to_bbox(generated[2].segmentation)) = <<8, 10>>
             /\ Len(r.matches) = 1
             /\ r.matches[1].similarity = 9000
             /\ r.matches[1].mask = generated[1].segmentation

\* The area of the half-open box [x1, y1, x2, y2].
BoxArea(box) == (box[3] - box[1]) * (box[4] - box[2])

\* The unit squares of the half-open box [x1, y1, x2, y2].
BoxCells(box) == {<<x, y>> : x \in box[1]..(box[3] - 1), y \in box[2]..(box[4] - 1)}

\* The candidates a < b of the call of _nms have the same bbox.
SameBbox(a, b) ==
    /\ a < b
    /\ call.candidates[a].bbox = call.candidates[b].bbox

\* Candidate k of the call of _nms is in what _nms returned.
Survives(k) == call.candidates[k] \in Range(call.result)

\* C13 as stated: of two candidates of the sorted input of _nms that have the
\* same bbox, exactly one is in the output: the earlier one, which has the
\* higher similarity or, on a tie, the earlier index.
C13_ExactlyOneOfIdenticalBoxes ==
    call.fn = "_nms" =>
        \A a, b \in 1..Len(call.candidates) :
            SameBbox(a, b) => Survives(a) /\ ~Survives(b)

\* C13 amended: with an NMS threshold below 1, of two candidates of the sorted
\* input that have the same bbox of positive area the later one is never in
\* the output, and the earlier one is in the output unless a candidate kept
\* before it overlaps it above the threshold.
C13_LaterOfIdenticalBoxesSuppressed ==
    (call.fn = "_nms" /\ call.threshold < 10000) =>
        \A a, b \in 1..Len(call.candidates) :
            (SameBbox(a, b) /\ BoxArea(call.candidates[a].bbox) > 0) =>
                /\ ~Survives(b)
                /\ Survives(a) <=>
                      ~\E h \in 1..(a - 1) :
                          /\ Survives(h)
                          /\ IouAbove(bbox_iou(call.candidates[h].bbox,
                                               call.candidates[a].bbox),
                                      call.threshold)

\* C13 witness: _nms was given two candidates of the same bbox and the same
\* similarity and a third one elsewhere, and returned the first and the third.
C13_Witness ==
    /\ call.fn = "_nms"
    /\ call.threshold < 10000
    /\ Len(call.candidates) = 3
    /\ SameBbox(1, 2)
    /\ BoxArea(call.candidates[1].bbox) > 0
    /\ call.candidates[1].mask # call.candidates[2].mask
    /\ call.candidates[1].similarity = call.candidates[2].similarity
    /\ call.result = <<call.candidates[1], call.candidates[3]>>

\* C14: when every two candidates of the input of _nms have a bbox IoU below
\* the NMS threshold, _nms returns its input: the same candidates in the same
\* order.
C14_NoOverlapLeavesInputUnchanged ==
    call.fn = "_nms" =>
        ((\A a, b \in 1..Len(call.candidates) :
             a # b =>
                 LET iou == bbox_iou(call.candidates[a].bbox, call.candidates[b].bbox)
                 IN iou[1] * 10000 < call.threshold * iou[2])
         => call.result = call.candidates)

\* C14 witness: _nms was given three candidates, two of them overlapping by
\* less than the threshold, and returned them all.
C14_Witness ==
    /\ call.fn = "_nms"
    /\ Len(call.candidates) = 3
    /\ bbox_iou(call.candidates[1].bbox, call.candidates[2].bbox)[1] > 0
    /\ call.result = call.candidates

\* C15: for a mask with a true pixel mask_to_bbox returns the tight rectangle
\* [x1, y1, x2, y2] around the true pixels (every true pixel is inside, every
\* side touches a true pixel); for the all-false mask it returns [0, 0, 0, 0].
C15_MaskToBboxTight ==
    call.fn = "mask_to_bbox" =>
        LET box == call.result
            pixels == call.mask.pixels
        IN IF pixels = {} THEN box = <<0, 0, 0, 0>>
           ELSE /\ \A p \in pixels :
                     /\ box[1] <= p[1] /\ p[1] < box[3]
                     /\ box[2] <= p[2] /\ p[2] < box[4]
                /\ \E p \in pixels : p[1] = box[1]
                /\ \E p \in pixels : p[1] = box[3] - 1
                /\ \E p \in pixels : p[2] = box[2]
                /\ \E p \in pixels : p[2] = box[4] - 1

\* C15 witness: mask_to_bbox was called on a mask of two pixels that is not a
\* rectangle, and returned a box of more than two pixels.
C15_Witness ==
    /\ call.fn = "mask_to_bbox"
    /\ Cardinality(call.mask.pixels) = 2
    /\ (call.result[3] - call.result[1]) * (call.result[4] - call.result[2]) > 2

\* C16 as stated: bbox_iou of a box mask_to_bbox produced with itself is
\* exactly 1.
C16_IdenticalBoxesIouOne ==
    (/\ call.fn = "bbox_iou"
     /\ call.masks # << >>
     /\ call.box1 = call.box2)
    => call.result[1] = call.result[2]

\* C16 amended: bbox_iou of two identical boxes is exactly 1 when the box has
\* a positive area, which the box of every mask with a true pixel has; for
\* the box [0, 0, 0, 0] of an all-false mask it is 0.
C16_IdenticalPositiveBoxesIouOne ==
    (/\ call.fn = "bbox_iou"
     /\ call.box1 = call.box2)
    => /\ BoxArea(call.box1) > 0 => call.result[1] = call.result[2]
       /\ BoxArea(call.box1) = 0 => call.result[1] = 0
       /\ call.masks # << >> =>
             (BoxArea(call.box1) > 0 <=> call.masks[1].pixels # {})

\* C16 witness: bbox_iou was called on the box of a mask with true pixels and
\* an identical box, and returned 1.
C16_Witness ==
    /\ call.fn = "bbox_iou"
    /\ call.masks # << >>
    /\ call.masks[1].pixels # {}
    /\ call.box1 = call.box2
    /\ call.result[1] = call.result[2]

\* C17: bbox_iou returns 0 when the boxes share no area or their union has no
\* area, and the area of the intersection over the area of the union
\* otherwise.
C17_IouIsIntersectionOverUnion ==
    call.fn = "bbox_iou" =>
        LET shared == BoxCells(call.box1) \cap BoxCells(call.box2)
            covered == BoxCells(call.box1) \cup BoxCells(call.box2)
        IN /\ call.result[2] > 0
           /\ IF shared = {} \/ covered = {}
              THEN call.result[1] = 0
              ELSE call.result[1] * Cardinality(covered) =
                      Cardinality(shared) * call.result[2]

\* C17 witness: bbox_iou was called on two boxes that overlap in part, neither
\* inside the other, and on no more.
C17_Witness ==
    /\ call.fn = "bbox_iou"
    /\ BoxCells(call.box1) \cap BoxCells(call.box2) # {}
    /\ BoxCells(call.box1) \ BoxCells(call.box2) # {}
    /\ BoxCells(call.box2) \ BoxCells(call.box1) # {}
    /\ call.result[1] > 0
    /\ call.result[1] < call.result[2]

\* The poolings done so far: <<call, position in its batch>>.
Poolings ==
    UNION {{<<n, k>> : k \in 1..Len(pool_log[n].masks)} :
           n \in {m \in 1..Len(pool_log) : pool_log[m].outcome = "returned"}}

\* The pooled sum of pooling <<n, k>> over the patches of the cells given.
PooledSum(pooling, cells) ==
    VectorSum(PatchEmbeddings(pool_log[pooling[1]].image), cells)

\* C18: a pooling whose mask selects no foreground patch averages every patch
\* of the grid and emits a diagnostic, in compute_ffa_embedding and in
\* compute_batch_ffa_embeddings alike.
C18_FallbackWithDiagnostic ==
    \A pooling \in Poolings :
        LET entry == pool_log[pooling[1]]
        IN ForegroundPatches(entry.masks[pooling[2]]) = {} =>
              /\ entry.embeddings[pooling[2]] =
                    NormalizedMean(PooledSum(pooling, GridCells))
              /\ entry.printed # << >>

\* C19: a pooling whose selected patch vectors average to the zero vector
\* surfaces an error and returns no descriptor.
C19_ZeroNormSurfaced ==
    \A n \in 1..Len(pool_log) :
        \A k \in 1..Len(pool_log[n].masks) :
            (/\ ~InterpolateRaises(pool_log[n].masks[k])
             /\ VectorSum(PatchEmbeddings(pool_log[n].image),
                          PatchMask(pool_log[n].masks[k])) = <<0, 0>>)
            => pool_log[n].outcome = "raised"

UnitNorm(embedding) ==
    /\ Dot(embedding, embedding) <= 10000
    /\ Dot(embedding, embedding) >= 9700

\* C22: the descriptor pooled for a mask with at least one covered foreground
\* patch has Euclidean norm 1.
C22_PooledDescriptorUnitNorm ==
    \A pooling \in Poolings :
        LET entry == pool_log[pooling[1]]
        IN ForegroundPatches(entry.masks[pooling[2]]) # {} =>
              UnitNorm(entry.embeddings[pooling[2]])

\* The bbox IoU of candidates a and b of the call of _nms is strictly above
\* its threshold.
OverlapsAbove(a, b) ==
    LET iou == bbox_iou(call.candidates[a].bbox, call.candidates[b].bbox)
    IN iou[1] * 10000 > call.threshold * iou[2]

\* C23: _nms returns the candidates it keeps in input order, and keeps a
\* candidate exactly when no earlier kept candidate has a bbox IoU with it
\* strictly above the threshold; an earlier suppressed candidate suppresses
\* nothing.
C23_KeptIffNoEarlierKeptOverlaps ==
    call.fn = "_nms" =>
        LET kept_indices == {a \in 1..Len(call.candidates) : Survives(a)}
        IN /\ call.result =
                 SelectSeq(call.candidates, LAMBDA c : c \in Range(call.result))
           /\ Len(call.result) = Cardinality(kept_indices)
           /\ \A a \in 1..Len(call.candidates) :
                 Survives(a) <=>
                     ~\E h \in 1..(a - 1) : Survives(h) /\ OverlapsAbove(h, a)

\* C23 witness: the first candidate suppressed the second, and the third,
\* which overlaps the second above the threshold but not the first, was kept.
C23_Witness ==
    /\ call.fn = "_nms"
    /\ Len(call.candidates) = 3
    /\ OverlapsAbove(1, 2)
    /\ OverlapsAbove(2, 3)
    /\ ~OverlapsAbove(1, 3)
    /\ call.result = <<call.candidates[1], call.candidates[3]>>

\* The proposal of the image at hand that candidate c was built from.
ProposalIndex(c) ==
    CHOOSE k \in 1..Len(proposals) :
        /\ proposals[k].segmentation = c.mask
        /\ proposals[k].predicted_iou = c.predicted_iou

\* C24: the list handed to _nms holds the candidates of the proposals at or
\* above the similarity threshold, each once, sorted by similarity
\* descending with ties in proposal order: it is determined by the
\* proposals, the embeddings and the configuration.
C24_SuppressorInputSortedStably ==
    pc = "nms" =>
        LET passing == {k \in 1..Len(proposals) :
                           similarities[k] >= self.similarity_threshold}
        IN /\ Len(candidates) = Cardinality(passing)
           /\ {ProposalIndex(candidates[k]) : k \in 1..Len(candidates)} = passing
           /\ \A k \in 1..Len(candidates) :
                 candidates[k] = CandidateOf(ProposalIndex(candidates[k]))
           /\ \A k \in 1..(Len(candidates) - 1) :
                 RanksBefore(ProposalIndex(candidates[k]),
                             ProposalIndex(candidates[k + 1]))

\* C24 witness: two candidates of the same similarity are handed to _nms in
\* proposal order, after a proposal between them was ranked elsewhere.
C24_Witness ==
    /\ pc = "nms"
    /\ \E k \in 1..(Len(candidates) - 1) :
          /\ candidates[k].similarity = candidates[k + 1].similarity
          /\ ProposalIndex(candidates[k]) + 1 < ProposalIndex(candidates[k + 1])

\* The stages of match_in_image in the order of its code, and the stage each
\* one hands over to; "loop" is the return to match_across_images.
Stages == {"propose", "pool", "similarity", "filter", "sort", "nms", "truncate"}

StageAfter(stage) ==
    CASE stage = "propose" -> "pool"
      [] stage = "pool" -> "similarity"
      [] stage = "similarity" -> "filter"
      [] stage = "filter" -> "sort"
      [] stage = "sort" -> "nms"
      [] stage = "nms" -> "truncate"
      [] stage = "truncate" -> "loop"

\* The generated masks of the image at hand that pass the area filter.
AreaFiltered(image) ==
    SelectSeq(GeneratorOutput(image), LAMBDA m : AreaRatioInRange(m.area, image))

\* C25 as stated: the stages of an image run in the order PROPOSE, POOL,
\* AREA-FILTER, SIMILARITY-FILTER, sort, SUPPRESS, TRUNCATE: every stage
\* hands over to the next (or the image ends early without proposals or with
\* an exception), and POOL, coming before the area filter, pools every
\* generated mask.
C25_StagesInStatedOrder ==
    [][(pc \in Stages) =>
          (/\ pc' \in {StageAfter(pc), "loop", "raised"}
           /\ (pc = "pool" /\ pc' = "similarity") =>
                 Len(proposal_embeddings') = Len(GeneratorOutput(results.image)))
      ]_vars

\* C25 amended: the stages run in the order PROPOSE (with the area filter
\* inside it), POOL of the proposals that passed the area filter, similarity,
\* SIMILARITY-FILTER, sort, SUPPRESS, TRUNCATE, each handing over to the next;
\* PROPOSE returns the empty result at once when no proposal is left, and an
\* exception in PROPOSE or POOL ends the run.
C25_StagesInCodeOrder ==
    [][(pc \in Stages) =>
          (/\ \/ pc' = StageAfter(pc)
              \/ (/\ pc = "propose"
                  /\ pc' = "loop"
                  /\ AreaFiltered(results.image) = << >>
                  /\ all_results' = Append(all_results, results))
              \/ (pc \in {"propose", "pool"} /\ pc' = "raised")
           /\ (pc = "propose" /\ pc' = "pool") =>
                 (/\ Len(proposals') = Len(AreaFiltered(results.image))
                  /\ Range(proposals') = Range(AreaFiltered(results.image)))
           /\ (pc = "pool" /\ pc' = "similarity") =>
                 Len(proposal_embeddings') = Len(AreaFiltered(results.image)))
      ]_vars

\* C25 witness: an image whose generator output holds a mask the area filter
\* rejects went through every stage and its result, with a match, was
\* collected.
C25_Witness ==
    \E r \in Range(all_results) :
        /\ has_match(r)
        /\ Len(AreaFiltered(r.image)) < Len(GeneratorOutput(r.image))

\* The calls of the embedder of the run so far that returned.
ReturnedPoolCalls == {n \in 1..Len(pool_log) : pool_log[n].outcome = "returned"}

\* C26: the embedding model is invoked exactly once for every target image
\* that has a proposal, with all the proposals of the image in one batch, and
\* not at all for an image without proposals.
C26_OneEmbedderCallPerImage ==
    LET pooled == {k \in 1..Len(all_results) :
                      AreaFiltered(all_results[k].image) # << >>}
        under_way == IF pc \in {"similarity", "filter", "sort", "nms", "truncate"}
                     THEN 1 ELSE 0
    IN /\ Cardinality(ReturnedPoolCalls) = Cardinality(pooled) + under_way
       /\ Len(pool_log) > Cardinality(ReturnedPoolCalls) =>
             /\ pc = "raised"
             /\ Len(pool_log) = Cardinality(ReturnedPoolCalls) + 1
       /\ \A n \in 1..Len(pool_log) :
             Len(pool_log[n].masks) = Len(AreaFiltered(pool_log[n].image))

\* C26 witness: the run went through an image with several proposals and an
\* image without any, and the embedder was called once.
C26_Witness ==
    /\ pc = "returned"
    /\ Len(all_results) = 2
    /\ Len(pool_log) = 1
    /\ Len(pool_log[1].masks) > 1
    /\ \E r \in Range(all_results) : AreaFiltered(r.image) = << >>

\* C27: a step of match_across_images or match_in_image leaves the reference
\* descriptor, the matcher's configuration, the target images, the proposals
\* and embeddings of the image at hand and the results collected so far as
\* they are.
C27_MatchingMutatesNothing ==
    [][(pc \notin {"returned", "raised"}) =>
          (/\ reference_embedding' = reference_embedding
           /\ self' = self
           /\ args' = args
           /\ target_images' = target_images
           /\ Len(all_results') >= Len(all_results)
           /\ SubSeq(all_results', 1, Len(all_results)) = all_results
           /\ pc \in {"pool", "similarity", "filter", "sort", "nms"} =>
                 proposals' = proposals
           /\ pc \in {"similarity", "filter", "sort", "nms"} =>
                 proposal_embeddings' = proposal_embeddings
           /\ \A k \in 1..Len(candidates') :
                 \E n \in 1..Len(proposals') :
                     candidates'[k].mask = proposals'[n].segmentation)
      ]_vars

\* C27 witness: a second result was collected after a first one with other
\* matches, and the first one is as it was collected.
C27_Witness ==
    /\ Len(all_results) = 2
    /\ has_match(all_results[1])
    /\ has_match(all_results[2])
    /\ all_results[1].matches # all_results[2].matches
    /\ all_results[1].image = target_images[1][2]

\* Match m of an image is built from proposal p of that image.
BuiltFrom(m, p, image) ==
    /\ m.mask = p.segmentation
    /\ m.predicted_iou = p.predicted_iou
    /\ m.area = p.area
    /\ m.embedding = compute_ffa_embedding(image, p.segmentation)

\* C28: every match of a result is built from exactly one proposal of its
\* image (mask, quality, area and embedding of that proposal), its bbox is
\* mask_to_bbox of its mask and its similarity the dot product of the
\* reference with its embedding.
C28_MatchConsistentWithOneProposal ==
    \A r \in HeldResults :
        \A k \in 1..Len(r.matches) :
            LET m == r.matches[k]
                generated == AreaFiltered(r.image)
            IN /\ Cardinality({n \in 1..Len(generated) :
                                  BuiltFrom(m, generated[n], r.image)}) = 1
               /\ m.bbox = mask_to_bbox(m.mask)
               /\ m.area = Cardinality(m.mask.pixels)
               /\ m.similarity = Dot(reference_embedding, m.embedding)

\* C28 witness: a collected result holds a match that is not the first
\* proposal of its image, with a similarity below 1 that is no multiple of a
\* hundredth.
C28_Witness ==
    \E r \in Range(all_results) :
        \E k \in 1..Len(r.matches) :
            /\ r.matches[k].mask # generate_proposals(r.image)[1].segmentation
            /\ r.matches[k].similarity < 10000
            /\ r.matches[k].similarity % 100 # 0

\* The sequence a is a prefix of the sequence b.
IsPrefix(a, b) == Len(a) <= Len(b) /\ SubSeq(b, 1, Len(a)) = a

\* C29: of two runs of matchers that hold the same NMS threshold and top-K on
\* the same images and reference, the match list of every image of the run
\* with the higher similarity threshold is a prefix of the match list of the
\* run with the lower one.
C29_HigherThresholdGivesPrefix ==
    (/\ prev # << >>
     /\ pc = "returned"
     /\ prev[1].pc = "returned"
     /\ prev[1].target_images = target_images
     /\ prev[1].self.nms_iou_threshold = self.nms_iou_threshold
     /\ prev[1].self.top_k = self.top_k)
    => \A k \in 1..Len(all_results) :
           /\ self.similarity_threshold >= prev[1].self.similarity_threshold =>
                 IsPrefix(all_results[k].matches, prev[1].all_results[k].matches)
           /\ self.similarity_threshold <= prev[1].self.similarity_threshold =>
                 IsPrefix(prev[1].all_results[k].matches, all_results[k].matches)

\* C29 witness: the second run held a higher similarity threshold than the
\* first and kept, for one image, some but not all of the matches of the
\* first run.
C29_Witness ==
    /\ prev # << >>
    /\ pc = "returned"
    /\ prev[1].pc = "returned"
    /\ prev[1].target_images = target_images
    /\ self.similarity_threshold > prev[1].self.similarity_threshold
    /\ \E k \in 1..Len(all_results) :
          /\ all_results[k].matches # << >>
          /\ Len(all_results[k].matches) < Len(prev[1].all_results[k].matches)

\* C30: the PipelineResult an entry point returns holds exactly one result
\* for every path of image_paths that does not resolve to the reference
\* image, in the order of image_paths, so that total_images is the number of
\* those paths and total_matches is at most total_images.
C30_ReferenceIsNeverATarget ==
    (call.stage = "returned" /\ call.result # None) =>
        LET result == call.result[1]
            expected == SelectSeq(call.image_paths,
                                  LAMBDA path :
                                      Resolve(path) #
                                          Resolve(result.reference_image_path))
        IN /\ [k \in 1..Len(result.image_results) |->
                  result.image_results[k].image_path] = expected
           /\ total_images(result) = Len(expected)
           /\ total_matches(result) <= total_images(result)
           /\ \A k \in 1..Len(result.image_results) :
                 result.image_results[k].image #
                     load_image(Resolve(result.reference_image_path))

\* C30 witness: an entry point was given the reference under another name
\* and one more image, and returned one result, which has a match.
C30_Witness ==
    /\ call.stage = "returned"
    /\ call.result # None
    /\ Len(call.image_paths) = 2
    /\ \E k \in 1..2 :
          /\ call.image_paths[k] # call.result[1].reference_image_path
          /\ Resolve(call.image_paths[k]) = Resolve(call.result[1].reference_image_path)
    /\ total_images(call.result[1]) = 1
    /\ total_matches(call.result[1]) = 1

====
